---------------------------- MODULE Spec2Model ----------------------------
(* Verification model of quizcraft's api.py: the two quiz-generation      *)
(* endpoints (POST /generate-quiz and POST /api/generate-quiz-from-pdf),   *)
(* their retry loop around the LLM, validate_and_fix_quiz, the temporary   *)
(* upload file and the persisted quiz file.                                *)
EXTENDS Integers, Sequences, FiniteSets, TLC

(***************************************************************************)
(* Bounds of the model and constants of the program.                       *)
(***************************************************************************)
NumReq == 2          \* request handlers that may run (threads of the server)
MaxExtra == 1        \* an LLM reply holds at most QuizSize + MaxExtra elements
MaxText == 2         \* length of the `text` field, in characters

QuizSize == 10       \* questions of a returned quiz
NumOptions == 4      \* options of a validated question
MinOptions == 2      \* fewer options than this: the question is dropped
max_attempts == 3
MaxPdfBytes == 10 * 1024 * 1024

Requests == 1..NumReq

(***************************************************************************)
(* JSON values.  A dict is a function from its keys to values; a value     *)
(* that the code tests with isinstance(.., list) is tagged.                *)
(***************************************************************************)
JList(s) == [list |-> TRUE, elems |-> s]
JNotList == [list |-> FALSE, elems |-> <<>>]
JDict(kv) == [dict |-> TRUE, kv |-> kv]
JNotDict == [dict |-> FALSE, kv |-> <<>>]

Has(q, k) == k \in DOMAIN q
Put(q, k, v) == [x \in (DOMAIN q) \cup {k} |-> IF x = k THEN v ELSE q[x]]
RequiredKeys == {"question", "options", "correct"}
HasRequired(q) == \A k \in RequiredKeys : Has(q, k)
InSeq(x, s) == \E i \in 1..Len(s) : s[i] = x

\* f"Option {n}"
OptionLabel(n) ==
    CASE n = 1 -> "Option 1" [] n = 2 -> "Option 2" [] n = 3 -> "Option 3"
      [] n = 4 -> "Option 4" [] OTHER -> "Option N"

\* while len(q["options"]) < 4: q["options"].append(f"Option {len(q['options']) + 1}")
RECURSIVE PadOptions(_)
PadOptions(s) ==
    IF Len(s) < NumOptions THEN PadOptions(Append(s, OptionLabel(Len(s) + 1))) ELSE s

\* the trim of the options left out
TrimOptionsOff(s) == s

\* if len(q["options"]) > 4: q["options"] = q["options"][:4]
TrimOptions(s) == IF Len(s) > NumOptions THEN SubSeq(s, 1, NumOptions) ELSE s

\* the renames of the field repair; `options` is bound to the very list
\* object of `choices`, so a later append shows through both keys
RepairFields(q) ==
    LET q1 == IF ~Has(q, "options") /\ Has(q, "choices")
              THEN Put(q, "options", q["choices"]) ELSE q
        q2 == IF ~Has(q1, "correct") /\ Has(q1, "answer")
              THEN Put(q1, "correct", q1["answer"]) ELSE q1
        q3 == IF ~Has(q2, "correct") /\ Has(q2, "correctAnswer")
              THEN Put(q2, "correct", q2["correctAnswer"]) ELSE q2
    IN  q3

\* does the element survive the field checks (the `continue`s of the loop body)?
Survives(e) ==
    /\ e.dict
    /\ LET q == e.kv IN
       /\ \/ HasRequired(q)
          \/ /\ Has(q, "question")
             /\ LET q1 == IF ~Has(q, "options") /\ Has(q, "choices")
                          THEN Put(q, "options", q["choices"]) ELSE q
                IN  Has(q1, "options") /\ q1["options"].list
             /\ HasRequired(RepairFields(q))
       /\ LET r == IF HasRequired(q) THEN q ELSE RepairFields(q) IN
          r["options"].list /\ Len(r["options"].elems) >= MinOptions

\* the repair picking the last option
FixCorrectLast(correct, opts) == IF ~InSeq(correct, opts) THEN opts[Len(opts)] ELSE correct

\* `correct` left as the LLM gave it
FixCorrectOff(correct, opts) == correct

\* the surviving element after padding, trimming and the repair of `correct`
FixCorrect(correct, opts) == IF ~InSeq(correct, opts) THEN opts[1] ELSE correct

FixItem(e) ==
    LET q == e.kv
        aliased == ~HasRequired(q) /\ ~Has(q, "options") /\ Has(q, "choices")
        r == IF HasRequired(q) THEN q ELSE RepairFields(q)
        padded == PadOptions(r["options"].elems)
        opts == TrimOptions(padded)
        r1 == Put(r, "options", JList(opts))
        r2 == IF aliased THEN Put(r1, "choices", JList(padded)) ELSE r1
    IN  Put(r2, "correct", FixCorrect(r["correct"], opts))

RECURSIVE ValidItems(_)
ValidItems(s) ==
    IF s = <<>> THEN <<>>
    ELSE (IF Survives(Head(s)) THEN <<FixItem(Head(s))>> ELSE <<>>) \o ValidItems(Tail(s))

\* None is [ok |-> FALSE]
validate_and_fix_quiz(quiz) ==
    IF ~quiz.list THEN [ok |-> FALSE, items |-> <<>>]
    ELSE LET v == ValidItems(quiz.elems) IN
         IF v # <<>> THEN [ok |-> TRUE, items |-> v] ELSE [ok |-> FALSE, items |-> <<>>]


(***************************************************************************)
(* Inputs of the environment: the items an LLM reply may hold, the replies,*)
(* the JSON bodies and the uploads.                                        *)
(***************************************************************************)
Item(qn, opts, correct) ==
    JDict([question |-> <<qn>>, options |-> JList(opts), correct |-> correct])

GoodPool ==
    << Item("Q1", <<"A", "B", "C", "D">>, "B"),
       Item("Q2", <<"Option 3", "B">>, "Option 3"),
       JDict([question |-> <<"Q3">>, choices |-> JList(<<"A", "B", "C", "D", "E", "F">>),
              answer |-> "F"]),
       Item("Q4", <<"A", "A", "B", "C">>, "A"),
       JDict([question |-> <<"Q5">>, options |-> JList(<<"A", "B", "C">>),
              correctAnswer |-> "C"]),
       JDict([question |-> <<"Q6">>, choices |-> JList(<<"A", "B">>), correct |-> "Z"]) >>

MixedPool ==
    << JNotDict,
       Item("M1", <<"A", "B", "C", "D">>, "D"),
       JDict([options |-> JList(<<"A", "B", "C", "D">>), correct |-> "A"]),
       JDict([question |-> <<"M2">>, options |-> JNotList, correct |-> "A"]),
       Item("M3", <<"A">>, "A"),
       JDict([question |-> <<"M4">>, choices |-> JNotList, answer |-> "A"]),
       JDict([question |-> <<"M5">>, options |-> JList(<<"A", "B">>)]) >>

Pools == {GoodPool, MixedPool}

\* a list of n elements that cycles through the pool
ReplyList(pool, n) == [i \in 1..n |-> pool[((i - 1) % Len(pool)) + 1]]

ReplyLens == 0..(QuizSize + MaxExtra)

\* what one call of model.generate_content and the reading of response.text give:
\* the call throws, the text is empty, the text holds no array, the array text
\* does not parse, or it parses (to a list, as the text starts with `[`)
LlmReply(k, v) == [k |-> k, value |-> v]
Replies ==
    {LlmReply(k, JList(<<>>)) : k \in {"throw", "empty", "noarray", "badjson"}}
      \cup {LlmReply("json", JList(ReplyList(p, n))) : p \in Pools, n \in ReplyLens}

Chars == {" ", "a"}
Texts == UNION {[1..n -> Chars] : n \in 0..MaxText}

\* str.strip()
RECURSIVE LStrip(_)
LStrip(s) == IF s # <<>> /\ Head(s) = " " THEN LStrip(Tail(s)) ELSE s
RECURSIVE RStrip(_)
RStrip(s) == IF s # <<>> /\ s[Len(s)] = " " THEN RStrip(SubSeq(s, 1, Len(s) - 1)) ELSE s
Strip(s) == RStrip(LStrip(s))

\* the value request.get_json() returns, or its failure
JStr(s) == [str |-> TRUE, s |-> s]
JNotStr == [str |-> FALSE, s |-> <<>>]
Body(t, kv, elems) == [t |-> t, kv |-> kv, elems |-> elems]
Bodies ==
    {Body("unparseable", <<>>, <<>>), Body("null", <<>>, <<>>),
     Body("dict", <<>>, <<>>), Body("dict", [topic |-> JStr(<<"a">>)], <<>>),
     Body("dict", [text |-> JNotStr], <<>>),
     Body("list", <<>>, <<>>), Body("list", <<>>, <<"a">>), Body("list", <<>>, <<"text">>)}
      \cup {Body("dict", [text |-> JStr(t)], <<>>) : t \in Texts}

\* `not data`
Falsy(data) ==
    \/ data.t = "null"
    \/ data.t = "dict" /\ DOMAIN data.kv = {}
    \/ data.t = "list" /\ data.elems = <<>>
\* `'text' in data`
TextIn(data) ==
    \/ data.t = "dict" /\ Has(data.kv, "text")
    \/ data.t = "list" /\ InSeq("text", data.elems)

\* the upload and what the collaborators do with it
Upload(hasFile, stem, ext, save, size, throws, text) ==
    [hasFile |-> hasFile, stem |-> stem, ext |-> ext, save |-> save, size |-> size,
     throws |-> throws, text |-> text]
GoodUpload == Upload(TRUE, "notes", "pdf", "ok", 1, FALSE, <<"a">>)
Uploads ==
    {GoodUpload,
     [GoodUpload EXCEPT !.hasFile = FALSE],
     [GoodUpload EXCEPT !.stem = "", !.ext = ""],
     [GoodUpload EXCEPT !.ext = "txt"],
     [GoodUpload EXCEPT !.ext = "PDF"],
     [GoodUpload EXCEPT !.save = "throws"],
     [GoodUpload EXCEPT !.save = "throws_partial"],
     [GoodUpload EXCEPT !.size = MaxPdfBytes],
     [GoodUpload EXCEPT !.size = MaxPdfBytes + 1],
     [GoodUpload EXCEPT !.size = MaxPdfBytes + 1, !.throws = TRUE],
     [GoodUpload EXCEPT !.throws = TRUE],
     [GoodUpload EXCEPT !.text = <<>>],
     [GoodUpload EXCEPT !.text = <<" ">>]}

\* Request 1 draws its input and its LLM replies from the full sets; the other
\* requests, which are there to run beside it, draw from a few of them.
Narrow(S, small, r) == IF r = 1 THEN S ELSE S \cap small
RepliesOf(r) ==
    Narrow(Replies, {LlmReply("throw", JList(<<>>)),
                     LlmReply("json", JList(ReplyList(GoodPool, 1))),
                     LlmReply("json", JList(ReplyList(GoodPool, QuizSize)))}, r)
BodiesOf(r) ==
    Narrow(Bodies, {Body("dict", <<>>, <<>>), Body("dict", [text |-> JStr(<<"a">>)], <<>>)}, r)
UploadsOf(r) ==
    Narrow(Uploads, {GoodUpload, [GoodUpload EXCEPT !.size = MaxPdfBytes + 1]}, r)

\* pdf_file.filename == '', and str.lower() on the extension of the name
NoFileName(u) == u.stem = "" /\ u.ext = ""
Lower(ext) == IF ext = "PDF" THEN "pdf" ELSE ext
EndsWithPdf(u) == Lower(u.ext) = "pdf"

(***************************************************************************)
(* State.                                                                  *)
(***************************************************************************)
VARIABLES
    pc,        \* where each handler is: absent, idle, uploaded, loop, save, dump, done
    endpoint,  \* "text" (generate_quiz) or "pdf" (generate_quiz_from_pdf)
    input,     \* the JSON body or the upload of the request
    text,      \* the stripped `text` the filler questions quote
    attempts,  \* the local `attempts`
    validated, \* what validate_and_fix_quiz returned on the latest attempt
    quiz,      \* the local `validated_quiz` once the attempt is accepted
    off,       \* elements of the quiz already flushed to the quiz file
    resp,      \* the response the handler returned
    nresp,     \* how many responses the handler produced
    calls,     \* calls of model.generate_content made for the request
    last,      \* what the latest attempt ran into
    onlyBad,   \* every attempt so far ended in a JSON decode error
    opened,    \* the handler tried to open the quiz file for writing
    wfail,     \* the write of the quiz file threw
    tmp,       \* requests whose temporary upload exists in uploads/
    file,      \* quizzes/generated_quiz.json: the elements it holds
    llm,       \* the arguments of the request's latest call of model.generate_content
    fpc,       \* a helper function called on its own: "off", "in", "once", "twice"
    fin,       \* its argument
    fout       \* what it returned

vars == <<pc, endpoint, input, text, attempts, validated, quiz, off, resp, nresp, calls, last,
          onlyBad, opened, wfail, tmp, file, llm, fpc, fin, fout>>

\* the state of the handlers, and the state of a helper called on its own
handlers == <<pc, endpoint, input, text, attempts, validated, quiz, off, resp, nresp,
              calls, last, onlyBad, opened, wfail, tmp, file, llm>>
helper == <<fpc, fin, fout>>

NoInput == [none |-> TRUE]
\* no call of model.generate_content yet
NoCall == [none |-> TRUE]
NoResp == [status |-> 0, error |-> "", quiz |-> <<>>]
Error(status, msg) == [status |-> status, error |-> msg, quiz |-> <<>>]
Ok(q) == [status |-> 200, error |-> "", quiz |-> q]
\* what is in generated_quiz.json before any request of this run writes it
OldFile == << [question |-> <<"old">>, options |-> JList(<<"A", "B", "C", "D">>),
               correct |-> "A"] >>

InitHandlers(present) ==
    /\ pc = [r \in Requests |-> IF r \in present THEN "idle" ELSE "absent"]
    /\ endpoint = [r \in Requests |-> "none"]
    /\ input = [r \in Requests |-> NoInput]
    /\ text = [r \in Requests |-> <<>>]
    /\ attempts = [r \in Requests |-> 0]
    /\ validated = [r \in Requests |-> <<>>]
    /\ quiz = [r \in Requests |-> <<>>]
    /\ off = [r \in Requests |-> 0]
    /\ resp = [r \in Requests |-> NoResp]
    /\ nresp = [r \in Requests |-> 0]
    /\ calls = [r \in Requests |-> 0]
    /\ last = [r \in Requests |-> "none"]
    /\ onlyBad = [r \in Requests |-> TRUE]
    /\ opened = [r \in Requests |-> FALSE]
    /\ wfail = [r \in Requests |-> FALSE]
    /\ tmp = {}
    /\ file = OldFile
    /\ llm = [r \in Requests |-> NoCall]

InitWith(present) ==
    /\ InitHandlers(present)
    /\ fpc = "off"
    /\ fin = <<>>
    /\ fout = <<>>

\* one request at a time
Init == InitWith({1})
\* the requests are served concurrently
InitConc == InitWith(Requests)

(***************************************************************************)
(* Returning from a handler.  A return of generate_quiz_from_pdf from      *)
(* inside its inner try runs the finally clause, which removes the upload. *)
(***************************************************************************)
\* os.remove(pdf_path) on the upload of request r (modelled as succeeding)
os_remove(r, files) == files \ {r}

\* a finally clause that removes nothing
CleanupOff(r, files) == files

\* finally: if os.path.exists(pdf_path): os.remove(pdf_path)
Cleanup(r, files) == IF r \in files THEN os_remove(r, files) ELSE files

ReturnWith(r, ep, response, files) ==
    /\ pc' = [pc EXCEPT ![r] = "done"]
    /\ resp' = [resp EXCEPT ![r] = response]
    /\ nresp' = [nresp EXCEPT ![r] = @ + 1]
    /\ tmp' = IF ep = "pdf" THEN Cleanup(r, files) ELSE files

Return(r, ep, response) == ReturnWith(r, ep, response, tmp)

\* the while loop ends without a return: the view function returns None
FallThrough(r, ep) ==
    /\ pc' = [pc EXCEPT ![r] = "done"]
    /\ UNCHANGED <<resp, nresp>>
    /\ tmp' = IF ep = "pdf" THEN Cleanup(r, tmp) ELSE tmp

(***************************************************************************)
(* POST /generate-quiz up to the retry loop.                               *)
(***************************************************************************)
\* the response of the input validation, NoResp when the request goes on
TextCheck(data) ==
    IF data.t = "unparseable" THEN Error(500, "An unexpected error occurred. Please try again.")
    ELSE IF Falsy(data) \/ ~TextIn(data) THEN Error(400, "Missing 'text' field")
    ELSE IF data.t # "dict" \/ ~data.kv["text"].str
         THEN Error(500, "An unexpected error occurred. Please try again.")
    ELSE IF Strip(data.kv["text"].s) = <<>> THEN Error(400, "Text input cannot be empty")
    ELSE NoResp

generate_quiz(r) ==
    /\ pc[r] = "idle"
    /\ \E data \in BodiesOf(r) :
        /\ endpoint' = [endpoint EXCEPT ![r] = "text"]
        /\ input' = [input EXCEPT ![r] = data]
        /\ IF TextCheck(data) # NoResp
           THEN /\ Return(r, "text", TextCheck(data))
                /\ UNCHANGED text
           ELSE /\ text' = [text EXCEPT ![r] = Strip(data.kv["text"].s)]
                /\ pc' = [pc EXCEPT ![r] = "loop"]
                /\ UNCHANGED <<resp, nresp, tmp>>
    /\ UNCHANGED <<attempts, validated, quiz, off, calls, last, onlyBad, opened, wfail, file>>
    /\ UNCHANGED <<llm, helper>>

(***************************************************************************)
(* POST /api/generate-quiz-from-pdf up to the retry loop.                  *)
(***************************************************************************)
\* the checks on request.files, NoResp when the upload is to be saved
UploadCheck(u) ==
    IF ~u.hasFile THEN Error(400, "No PDF file provided")
    ELSE IF NoFileName(u) THEN Error(400, "No PDF file selected")
    ELSE IF ~EndsWithPdf(u) THEN Error(400, "Uploaded file is not a PDF")
    ELSE NoResp

generate_quiz_from_pdf(r) ==
    /\ pc[r] = "idle"
    /\ \E u \in UploadsOf(r) :
        /\ endpoint' = [endpoint EXCEPT ![r] = "pdf"]
        /\ input' = [input EXCEPT ![r] = u]
        /\ IF UploadCheck(u) # NoResp
           THEN /\ pc' = [pc EXCEPT ![r] = "done"]
                /\ resp' = [resp EXCEPT ![r] = UploadCheck(u)]
                /\ nresp' = [nresp EXCEPT ![r] = @ + 1]
                /\ UNCHANGED tmp
           ELSE IF u.save = "ok"
           THEN \* pdf_file.save(pdf_path)
                /\ tmp' = tmp \cup {r}
                /\ pc' = [pc EXCEPT ![r] = "uploaded"]
                /\ UNCHANGED <<resp, nresp>>
           ELSE \* save throws, with or without a file left behind: except, then finally
                /\ pc' = [pc EXCEPT ![r] = "done"]
                /\ resp' = [resp EXCEPT ![r] = Error(500, "Failed to process PDF file")]
                /\ nresp' = [nresp EXCEPT ![r] = @ + 1]
                /\ tmp' = Cleanup(r, IF u.save = "throws_partial" THEN tmp \cup {r} ELSE tmp)
    /\ UNCHANGED <<text, attempts, validated, quiz, off, calls, last, onlyBad, opened, wfail, file>>
    /\ UNCHANGED <<llm, helper>>

\* the status of a failed extraction (fitz.open or page.get_text throws)
ExtractionErrorStatus == 400

\* from the size check to the start of the retry loop
PdfCheck(u) ==
    IF u.size > MaxPdfBytes THEN Error(400, "PDF file size exceeds 10MB limit")
    ELSE IF u.throws THEN Error(ExtractionErrorStatus, "Failed to extract text from PDF")
    ELSE IF Strip(u.text) = <<>>
         THEN Error(400, "No text found in PDF, please upload a text-based PDF")
    ELSE NoResp

extract_pdf(r) ==
    /\ pc[r] = "uploaded"
    /\ IF PdfCheck(input[r]) # NoResp
       THEN \* the oversized upload is removed before the return
            ReturnWith(r, "pdf", PdfCheck(input[r]),
                       IF input[r].size > MaxPdfBytes THEN os_remove(r, tmp) ELSE tmp)
       ELSE /\ pc' = [pc EXCEPT ![r] = "loop"]
            /\ UNCHANGED <<resp, nresp, tmp>>
    /\ UNCHANGED <<endpoint, input, text, attempts, validated, quiz, off, calls, last,
                   onlyBad, opened, wfail, file>>
    /\ UNCHANGED <<llm, helper>>

(***************************************************************************)
(* The retry loop: one attempt is one call of the LLM and the handling of  *)
(* its reply, up to the point where the quiz is to be saved.               *)
(***************************************************************************)
\* the test written as `if attempts <= max_attempts: continue`
CanRetryLate(a) == a <= max_attempts

\* `if attempts < max_attempts: continue` of the failure branches
CanRetry(a) == a < max_attempts
\* the except clause testing `attempts > max_attempts`
ExhaustedOff(a) == a > max_attempts

\* the except clause giving up one attempt early
ExhaustedEarly(a) == a >= max_attempts - 1

\* `if attempts >= max_attempts: return ... 500` of the except clause
Exhausted(a) == a >= max_attempts
\* `while attempts < max_attempts`
LoopGuard(a) == a < max_attempts
\* the increment left out
NextAttemptOff(a) == a

\* `attempts += 1`
NextAttempt(a) == a + 1

FillerOptions == <<"Option A", "Option B", "Option C", "Option D">>
Filler(ep, txt) ==
    [question |-> IF ep = "pdf" THEN <<"Additional question about the PDF content?">>
                  ELSE <<"Additional question about ">> \o txt \o <<"?">>,
     options |-> JList(FillerOptions),
     correct |-> "Option A"]

\* while len(validated_quiz) < 10: validated_quiz.append({...})
RECURSIVE PadQuiz(_, _)
PadQuiz(v, filler) == IF Len(v) < QuizSize THEN PadQuiz(Append(v, filler), filler) ELSE v

\* the trim left out
TrimQuizOff(v) == v

\* validated_quiz = validated_quiz[:10]
TrimQuiz(v) == SubSeq(v, 1, QuizSize)

Retry(kind) == [act |-> "retry", kind |-> kind, error |-> "", quiz |-> <<>>]
Fail(kind, msg) == [act |-> "fail", kind |-> kind, error |-> msg, quiz |-> <<>>]
Accept(kind, q) == [act |-> "accept", kind |-> kind, error |-> "", quiz |-> q]

\* every exhausted attempt answered with the message of the except clause
RetryOrFailOff(a, kind, msg) ==
    IF a < max_attempts THEN [act |-> "retry", kind |-> kind, error |-> "", quiz |-> <<>>]
    ELSE [act |-> "fail", kind |-> kind,
          error |-> "Failed to generate quiz after multiple attempts", quiz |-> <<>>]

RetryOrFail(a, kind, msg) == IF CanRetry(a) THEN Retry(kind) ELSE Fail(kind, msg)

\* a short list padded on whatever attempt gave it
SizeQuizEager(a, v, filler) ==
    IF Len(v) < QuizSize THEN Accept("padded", PadQuiz(v, filler))
    ELSE IF Len(v) > QuizSize THEN Accept("ok", TrimQuiz(v))
    ELSE Accept("ok", v)

\* the quiz the handler goes on with when validation gave v, or the retry
SizeQuiz(a, v, filler) ==
    IF Len(v) < QuizSize
    THEN IF CanRetry(a) THEN Retry("short") ELSE Accept("padded", PadQuiz(v, filler))
    ELSE IF Len(v) > QuizSize THEN Accept("ok", TrimQuiz(v))
    ELSE Accept("ok", v)

\* the prompt both handlers build around the text
Prompt(ep, txt) == [endpoint |-> ep, text |-> txt]
HarmCategories == {"HARM_CATEGORY_HARASSMENT", "HARM_CATEGORY_HATE_SPEECH",
                   "HARM_CATEGORY_SEXUALLY_EXPLICIT", "HARM_CATEGORY_DANGEROUS_CONTENT"}
\* the list generate_quiz binds to safety_settings, which no call is given
safety_settings == [c \in HarmCategories |-> "BLOCK_NONE"]
LowTemperature == 2   \* 0.2, in tenths
\* model.generate_content(prompt, generation_config={"temperature": 0.2}):
\* the arguments of the call, of which safety_settings is not one
generate_content(ep, txt) ==
    [prompt |-> Prompt(ep, txt),
     generation_config |-> [temperature |-> LowTemperature],
     safety |-> [passed |-> FALSE, thresholds |-> [c \in {} |-> "BLOCK_NONE"]]]

\* the items of the attempt before kept in front of the new ones
RevalidatedCarry(prev, new) == prev \o new

\* validated_quiz = validate_and_fix_quiz(quiz): the assignment replaces what
\* the variable held from the attempt before
Revalidated(prev, new) == new

\* the body of the loop for the reply rep, a being `attempts` after its increment
AttemptOutcome(a, rep, prev, filler) ==
    CASE rep.k = "throw" ->
           IF Exhausted(a)
           THEN Fail("throw", "Failed to generate quiz after multiple attempts")
           ELSE Retry("throw")
      [] rep.k = "empty" -> RetryOrFail(a, "empty", "Empty response from AI model")
      [] rep.k = "noarray" ->
           RetryOrFail(a, "noarray", "Could not find JSON array in response")
      [] rep.k = "badjson" ->
           RetryOrFail(a, "badjson", "Failed to parse AI response as JSON")
      [] OTHER ->
           LET v == validate_and_fix_quiz(rep.value) IN
           IF ~v.ok THEN RetryOrFail(a, "invalid", "Invalid quiz structure")
           ELSE SizeQuiz(a, Revalidated(prev, v.items), filler)

Attempt(r) ==
    /\ pc[r] = "loop"
    /\ calls[r] <= max_attempts     \* the counters cannot run away in the model
    /\ \E rep \in RepliesOf(r) :
        LET a == NextAttempt(attempts[r])
            out == AttemptOutcome(a, rep, validated[r], Filler(endpoint[r], text[r]))
        IN  /\ attempts' = [attempts EXCEPT ![r] = a]
            /\ llm' = [llm EXCEPT ![r] = generate_content(endpoint[r], text[r])]
            /\ validated' = [validated EXCEPT ![r] =
                    IF rep.k = "json" THEN validate_and_fix_quiz(rep.value).items ELSE <<>>]
            /\ calls' = [calls EXCEPT ![r] = @ + 1]
            /\ last' = [last EXCEPT ![r] = out.kind]
            /\ onlyBad' = [onlyBad EXCEPT ![r] = @ /\ rep.k = "badjson"]
            /\ CASE out.act = "fail" ->
                      /\ Return(r, endpoint[r], Error(500, out.error))
                      /\ UNCHANGED quiz
                 [] out.act = "accept" ->
                      /\ quiz' = [quiz EXCEPT ![r] = out.quiz]
                      /\ pc' = [pc EXCEPT ![r] = "save"]
                      /\ UNCHANGED <<resp, nresp, tmp>>
                 [] OTHER ->
                      /\ IF LoopGuard(a)
                         THEN UNCHANGED <<pc, resp, nresp, tmp>>
                         ELSE FallThrough(r, endpoint[r])
                      /\ UNCHANGED quiz
    /\ UNCHANGED <<endpoint, input, text, off, opened, wfail, file>>
    /\ UNCHANGED helper

(***************************************************************************)
(* Saving the accepted quiz: open(quiz_path, 'w') truncates the file, and  *)
(* json.dump writes through the file object's buffer, which reaches the    *)
(* file one flush at a time, each at the writer's own position.            *)
(***************************************************************************)
FlushItems == 5      \* elements of the quiz that one flush of the buffer carries

\* a failed save answered as a failed generation
OnSaveErrorOff(q) == [status |-> 500, error |-> "Failed to save quiz", quiz |-> <<>>]

\* except Exception around the save: logged, and the handler goes on to
\* `return jsonify(validated_quiz)`
OnSaveError(q) == Ok(q)

\* what a read finds where a write beyond the end of the file left a gap
Hole == [hole |-> TRUE]

\* the file after `chunk` is written at position `at` (0-based)
WriteAt(f, at, chunk) ==
    [i \in 1..(IF at + Len(chunk) > Len(f) THEN at + Len(chunk) ELSE Len(f)) |->
        IF i > at /\ i <= at + Len(chunk) THEN chunk[i - at]
        ELSE IF i <= Len(f) THEN f[i] ELSE Hole]

Min(a, b) == IF a < b THEN a ELSE b

open_quiz_file(r) ==
    /\ pc[r] = "save"
    /\ opened' = [opened EXCEPT ![r] = TRUE]
    /\ \E ok \in BOOLEAN :
        IF ok
        THEN /\ file' = <<>>
             /\ pc' = [pc EXCEPT ![r] = "dump"]
             /\ UNCHANGED <<wfail, resp, nresp, tmp>>
        ELSE \* except Exception: logged, then return jsonify(validated_quiz)
             /\ wfail' = [wfail EXCEPT ![r] = TRUE]
             /\ Return(r, endpoint[r], OnSaveError(quiz[r]))
             /\ UNCHANGED file
    /\ UNCHANGED <<endpoint, input, text, attempts, validated, quiz, off, calls, last, onlyBad>>
    /\ UNCHANGED <<llm, helper>>

dump_quiz(r) ==
    /\ pc[r] = "dump"
    /\ \E ok \in BOOLEAN :
        IF ok
        THEN LET n == Min(FlushItems, Len(quiz[r]) - off[r])
                 chunk == SubSeq(quiz[r], off[r] + 1, off[r] + n)
             IN  /\ file' = WriteAt(file, off[r], chunk)
                 /\ off' = [off EXCEPT ![r] = @ + n]
                 /\ IF off[r] + n >= Len(quiz[r])
                    THEN Return(r, endpoint[r], Ok(quiz[r]))
                    ELSE UNCHANGED <<pc, resp, nresp, tmp>>
                 /\ UNCHANGED wfail
        ELSE /\ wfail' = [wfail EXCEPT ![r] = TRUE]
             /\ Return(r, endpoint[r], OnSaveError(quiz[r]))
             /\ UNCHANGED <<file, off>>
    /\ UNCHANGED <<endpoint, input, text, attempts, validated, quiz, calls, last, onlyBad,
                   opened>>
    /\ UNCHANGED <<llm, helper>>

Next ==
    \E r \in Requests :
        \/ generate_quiz(r)
        \/ generate_quiz_from_pdf(r)
        \/ extract_pdf(r)
        \/ Attempt(r)
        \/ open_quiz_file(r)
        \/ dump_quiz(r)

Spec == Init /\ [][Next]_vars
SpecConc == InitConc /\ [][Next]_vars

\* a handler runs to its return: every LLM call returns or throws, and so
\* does every file operation
FairSpec ==
    /\ Spec
    /\ \A r \in Requests :
        /\ WF_vars(extract_pdf(r))
        /\ WF_vars(Attempt(r))
        /\ WF_vars(open_quiz_file(r))
        /\ WF_vars(dump_quiz(r))

(***************************************************************************)
(* Properties.                                                             *)
(***************************************************************************)
Done(r) == pc[r] = "done"
Accepted(r) == Done(r) /\ resp[r].status = 200
Failed(r) == Done(r) /\ resp[r].status = 500 /\ calls[r] > 0
\* correct equals n elements of options
Matches(q) == Cardinality({i \in 1..Len(q["options"].elems) : q["options"].elems[i] = q["correct"]})
ItemsOf(r) == {validated[r][i] : i \in 1..Len(validated[r])}
                \cup {resp[r].quiz[i] : i \in 1..Len(resp[r].quiz)}

\* C1: a request of either endpoint that ends with 200 returns a quiz of
\* exactly 10 items, whatever the LLM replied on its attempts.
C1_QuizHasTenItems == \A r \in Requests : Accepted(r) => Len(resp[r].quiz) = 10

\* a 200 whose quiz was cut down from a longer validated list, and one that was padded
C1_Witness ==
    \E r \in Requests : Accepted(r) /\ Len(validated[r]) > 10 /\ endpoint[r] = "pdf"

\* C2 as stated: in every item validate_and_fix_quiz returns and in every
\* item of a quiz returned with 200, `correct` equals exactly one element of
\* `options`.
C2_ExactlyOneOption == \A r \in Requests : \A q \in ItemsOf(r) : Matches(q) = 1

\* C2 amended: in every such item `correct` equals at least one element of
\* `options` (options may repeat, and then it equals several).
C2_CorrectAmongOptions == \A r \in Requests : \A q \in ItemsOf(r) : Matches(q) >= 1

\* a returned quiz with validated items whose `correct` had to be repaired, and fillers
C2_Witness ==
    \E r \in Requests :
        /\ Accepted(r) /\ last[r] = "padded"
        /\ \E i \in 1..Len(validated[r]) : validated[r][i]["question"] = <<"Q6">>

AllBadJson(r) == Done(r) /\ onlyBad[r] /\ attempts[r] = max_attempts

\* C3 as stated: three attempts that all end in a JSON decode error give 500
\* with the error "Failed to generate quiz after multiple attempts".
C3_GenericMessage ==
    \A r \in Requests :
        AllBadJson(r) => resp[r] = Error(500, "Failed to generate quiz after multiple attempts")

\* C3 amended: three attempts that all end in a JSON decode error give 500
\* with the error "Failed to parse AI response as JSON".
C3_ParseMessage ==
    \A r \in Requests :
        AllBadJson(r) => resp[r] = Error(500, "Failed to parse AI response as JSON")

C3_Witness == \E r \in Requests : AllBadJson(r) /\ calls[r] = 3

\* C4: a request that entered the retry loop ends Accepted or Failed with
\* exactly one response, it does end, and no LLM call follows the response.
C4_OneTerminalResponse ==
    /\ [](\A r \in Requests :
            /\ nresp[r] <= 1
            /\ (Done(r) /\ calls[r] > 0) =>
                 /\ nresp[r] = 1
                 /\ resp[r].status \in {200, 500}
                 /\ (resp[r].status = 200) = (last[r] \in {"ok", "padded"}))
    /\ [][\A r \in Requests : Done(r) => (Done(r)' /\ calls'[r] = calls[r]
                                           /\ resp'[r] = resp[r])]_vars
    /\ \A r \in Requests : (pc[r] = "loop") ~> Done(r)

C4_Witness ==
    \E r \in Requests : Done(r) /\ calls[r] = 3 /\ last[r] = "throw" /\ nresp[r] = 1

\* C5: a request makes at most 3 LLM calls, one per attempt, whatever the
\* replies are.
C5_CallBudget ==
    \A r \in Requests : calls[r] <= 3 /\ calls[r] = attempts[r]

C5_Witness == \E r \in Requests : calls[r] = 3 /\ Failed(r) /\ last[r] = "invalid"

ExtractionThrew(r) ==
    /\ endpoint[r] = "pdf" /\ Done(r)
    /\ UploadCheck(input[r]) = NoResp /\ input[r].save = "ok"
    /\ input[r].size <= MaxPdfBytes /\ input[r].throws
InputInvalid(r) ==
    \/ endpoint[r] = "text" /\ TextCheck(input[r]).status = 400
    \/ endpoint[r] = "pdf" /\ UploadCheck(input[r]).status = 400
    \/ endpoint[r] = "pdf" /\ input[r].size > MaxPdfBytes
    \/ endpoint[r] = "pdf" /\ ~input[r].throws /\ Strip(input[r].text) = <<>>

\* C6: a throwing PDF text extraction ends the request with 500, a 400 is
\* given only for invalid input, and a failed generation ends with 500.
C6_ExtractionFailureIs500 ==
    \A r \in Requests :
        /\ ExtractionThrew(r) => resp[r].status = 500
        /\ (Done(r) /\ resp[r].status = 400) => InputInvalid(r)
        /\ (Done(r) /\ last[r] \in {"throw", "empty", "noarray", "badjson", "invalid"})
              => resp[r].status = 500

NoTextField(data) ==
    /\ data.t \in {"null", "dict", "list"}
    /\ ~(data.t = "dict" /\ Has(data.kv, "text"))
BlankText(data) ==
    data.t = "dict" /\ Has(data.kv, "text") /\ data.kv["text"].str
       /\ Strip(data.kv["text"].s) = <<>>

\* C8: a JSON body without a `text` field, or with a blank one, is answered
\* with 400 ("Missing 'text' field" when the field is absent), without any
\* LLM call and without touching the quiz file.
C8_MissingTextIs400 ==
    \A r \in Requests :
        (Done(r) /\ endpoint[r] = "text") =>
            /\ NoTextField(input[r]) => resp[r] = Error(400, "Missing 'text' field")
            /\ BlankText(input[r]) => resp[r].status = 400
            /\ (NoTextField(input[r]) \/ BlankText(input[r])) =>
                  calls[r] = 0 /\ ~opened[r]

\* C9: an accepted quiz is returned with 200 whether or not the write of the
\* quiz file throws, a failing write starts no further attempt, and a run
\* that ends Failed never opened the quiz file.
C9_SaveIsBestEffort ==
    /\ [](\A r \in Requests :
            /\ (Done(r) /\ (opened[r] \/ wfail[r])) =>
                  resp[r] = Ok(quiz[r]) /\ Len(quiz[r]) = 10
            /\ Failed(r) => ~opened[r])
    /\ [][\A r \in Requests :
            pc[r] \in {"save", "dump"} =>
                /\ calls'[r] = calls[r]
                /\ pc'[r] \in {"save", "dump", "done"}
                /\ quiz'[r] = quiz[r]]_vars

C9_Witness == \E r \in Requests : Done(r) /\ wfail[r] /\ resp[r].status = 200

\* C10: with requests served concurrently, once every handler has returned
\* and no write threw, the quiz file holds exactly the quiz of one of the
\* requests that wrote it.
C10_FileIsOneQuiz ==
    ((\A r \in Requests : Done(r) /\ ~wfail[r]) /\ (\E r \in Requests : opened[r]))
        => \E r \in Requests : opened[r] /\ file = quiz[r]

(***************************************************************************)
(* validate_and_fix_quiz called on its own, on a parsed JSON value.        *)
(***************************************************************************)
MaxJson == 4         \* length of a text given to fix_json_format, in characters
MaxProse == 2        \* length of the prose before and after an array, in characters
MaxOptions == 6      \* an element of the list has at most this many options

OptionTexts == {"A", "Option 3"}
CorrectTexts == {"A", "Option 3", "Z"}
OptionLists == UNION {[1..n -> OptionTexts] : n \in 0..MaxOptions}

\* a dict with a question (or none), its options under the key ok and its
\* answer under the key ck ("none": the key is missing)
MakeItem(hasQ, ok, opts, ck, cor) ==
    LET q0 == IF hasQ THEN [question |-> <<"Q">>] ELSE <<>>
        q1 == IF ok = "none" THEN q0 ELSE Put(q0, ok, opts)
        q2 == IF ck = "none" THEN q1 ELSE Put(q1, ck, cor)
    IN  JDict(q2)

ValidateElements ==
    {JNotDict}
      \cup {MakeItem(TRUE, ok, JList(o), ck, c) :
              ok \in {"options", "choices"}, o \in OptionLists,
              ck \in {"correct", "answer", "correctAnswer"}, c \in CorrectTexts}
      \cup {MakeItem(hq, ok, o, ck, "A") :
              hq \in BOOLEAN, ok \in {"options", "choices", "none"},
              o \in {JNotList, JList(<<"A", "Z">>)},
              ck \in {"correct", "answer", "correctAnswer", "none"}}

ValidateInputs ==
    {JNotList} \cup {JList(<<e>>) : e \in ValidateElements}
               \cup {JList(<<JNotDict, e>>) : e \in ValidateElements}

InitValidate ==
    /\ InitHandlers({})
    /\ fpc = "in"
    /\ fin \in ValidateInputs
    /\ fout = <<>>

call_validate_and_fix_quiz ==
    /\ fpc = "in"
    /\ fout' = validate_and_fix_quiz(fin)
    /\ fpc' = "once"
    /\ UNCHANGED <<fin, handlers>>

SpecValidate == InitValidate /\ [][call_validate_and_fix_quiz]_vars

\* the element of the input the properties look at, and the item it became
Validated == fpc = "once" /\ fin.list
LastIn == fin.elems[Len(fin.elems)]
LastOut == fout.items[Len(fout.items)]
GivenOptions(e) == e.kv["options"].elems
\* the answer the element came with, under whichever key
GivenCorrect(e) ==
    IF Has(e.kv, "correct") THEN e.kv["correct"]
    ELSE IF Has(e.kv, "answer") THEN e.kv["answer"] ELSE e.kv["correctAnswer"]

\* a mapping with `question`, an `options` list of 2 to 6 entries and a
\* `correct` that is one of them
WellFormed(e) ==
    /\ e.dict /\ HasRequired(e.kv) /\ e.kv["options"].list
    /\ Len(GivenOptions(e)) \in 2..6
    /\ \E i \in 1..Len(GivenOptions(e)) : GivenOptions(e)[i] = e.kv["correct"]

\* C11: an element with a question, 2 to 6 options and a `correct` among
\* them is kept, and comes back with exactly 4 options and a `correct` that
\* is one of the 4.
C11_KeptWithFourOptions ==
    (Validated /\ WellFormed(LastIn)) =>
        /\ fout.ok
        /\ LastOut["question"] = LastIn.kv["question"]
        /\ Len(LastOut["options"].elems) = 4
        /\ \E i \in 1..4 : LastOut["options"].elems[i] = LastOut["correct"]

\* six options of which the sixth, cut off by the trim, was the correct one
C11_Witness ==
    /\ Validated /\ WellFormed(LastIn) /\ fout.ok
    /\ Len(GivenOptions(LastIn)) = 6
    /\ LastIn.kv["correct"] = "Option 3"
    /\ LastOut["correct"] = "A"

\* C12: a surviving item whose `correct` is not among its 4 options after
\* padding and truncation gets `correct` = options[0]; otherwise `correct`
\* stays what it was.
C12_CorrectRepaired ==
    (Validated /\ fout.ok) =>
        LET given == GivenCorrect(LastIn)
            opts == LastOut["options"].elems
        IN  LastOut["correct"] =
                IF \E i \in 1..Len(opts) : opts[i] = given THEN given ELSE opts[1]

\* an answer that came as `answer`, is none of the options, and options whose
\* first is not their last
C12_Witness ==
    /\ Validated /\ fout.ok
    /\ Has(LastIn.kv, "answer") /\ GivenCorrect(LastIn) = "Z"
    /\ LastOut["options"].elems = <<"Option 3", "A", "A", "A">>
    /\ LastOut["correct"] = "Option 3"

(***************************************************************************)
(* Text as a sequence of characters, and the pieces of Python's str and re *)
(* that extract_json_from_text and fix_json_format use.  A character is a  *)
(* string of length one; the typographic quotes are written by name.       *)
(***************************************************************************)
LDQuote == "ldquo"   \* U+201C
RDQuote == "rdquo"   \* U+201D
LSQuote == "lsquo"   \* U+2018
RSQuote == "rsquo"   \* U+2019
CurlyQuotes == {LDQuote, RDQuote, LSQuote, RSQuote}

\* \s and [a-zA-Z0-9_] over the characters of the model
IsSpace(c) == c \in {" ", "\n"}
IsWord(c) == c \in {"a", "b", "1", "_"}

SetMin(S) == CHOOSE x \in S : \A y \in S : x <= y
SetMax(S) == CHOOSE x \in S : \A y \in S : x >= y

\* the first position from i on that holds no whitespace (Len(s) + 1 if none)
RECURSIVE SkipSpaces(_, _)
SkipSpaces(s, i) == IF i <= Len(s) /\ IsSpace(s[i]) THEN SkipSpaces(s, i + 1) ELSE i

\* the first position from i on that holds no word character
RECURSIVE SkipWord(_, _)
SkipWord(s, i) == IF i <= Len(s) /\ IsWord(s[i]) THEN SkipWord(s, i + 1) ELSE i

\* str.find and str.rfind of one character, 0-based, -1 when it is not there
Find(s, c) ==
    IF \E i \in 1..Len(s) : s[i] = c THEN SetMin({i \in 1..Len(s) : s[i] = c}) - 1 ELSE -1
RFind(s, c) ==
    IF \E i \in 1..Len(s) : s[i] = c THEN SetMax({i \in 1..Len(s) : s[i] = c}) - 1 ELSE -1

\* str.replace(old, new): the occurrences of old, leftmost first, not overlapping
RECURSIVE ReplaceFrom(_, _, _, _)
ReplaceFrom(s, i, old, new) ==
    IF i > Len(s) THEN <<>>
    ELSE IF i + Len(old) - 1 <= Len(s) /\ SubSeq(s, i, i + Len(old) - 1) = old
         THEN new \o ReplaceFrom(s, i + Len(old), old, new)
         ELSE <<s[i]>> \o ReplaceFrom(s, i + 1, old, new)
Replace(s, old, new) == ReplaceFrom(s, 1, old, new)

(***************************************************************************)
(* extract_json_from_text.                                                 *)
(***************************************************************************)
Found(t) == [found |-> TRUE, text |-> t]
NotFound == [found |-> FALSE, text |-> <<>>]

\* r'\[\s*\{' matches at i: the position of the brace, 0 if it does not
OpensAt(s, i) ==
    IF s[i] = "["
    THEN LET k == SkipSpaces(s, i + 1) IN IF k <= Len(s) /\ s[k] = "{" THEN k ELSE 0
    ELSE 0

\* the positions where r'.*\}\s*\]' can end after the brace at k
ClosingEnds(s, k) ==
    {e \in (k + 2)..Len(s) :
        /\ s[e] = "]"
        /\ \E m \in (k + 1)..(e - 1) :
              s[m] = "}" /\ \A x \in (m + 1)..(e - 1) : IsSpace(s[x])}

\* `.*` is greedy: of the possible ends the match takes the last
LazyEnd(ends) == SetMin(ends)
GreedyEnd(ends) == SetMax(ends)

\* re.search(json_pattern, text, re.DOTALL): the leftmost start that matches
SearchArray(s) ==
    LET starts == {i \in 1..Len(s) : OpensAt(s, i) # 0 /\ ClosingEnds(s, OpensAt(s, i)) # {}}
    IN  IF starts = {} THEN NotFound
        ELSE LET i == SetMin(starts)
             IN  Found(SubSeq(s, i, GreedyEnd(ClosingEnds(s, OpensAt(s, i)))))

extract_json_from_text(txt) ==
    IF SearchArray(txt).found THEN SearchArray(txt)
    ELSE LET start == Find(txt, "[")
             end == RFind(txt, "]") + 1
         IN  IF start # -1 /\ end # 0 /\ end > start THEN Found(SubSeq(txt, start + 1, end))
             ELSE NotFound

(***************************************************************************)
(* fix_json_format.  The quote characters inside the string literals of    *)
(* its first two statements are plain ASCII quotes: the first statement    *)
(* replaces '"' by '"' twice, and in the second the three quotes in a row  *)
(* open a triple-quoted literal, so that the statement is one call of      *)
(* replace whose first argument is the text between the two triple quotes. *)
(***************************************************************************)
AsciiDQuote == <<"\"">>
AsciiSQuote == <<"'">>
\* the literal between the triple quotes: , "'").replace(
TripleQuoted ==
    <<",", " ", "\"", "'", "\"", ")", ".", "r", "e", "p", "l", "a", "c", "e", "(">>

\* the two statements under "Replace incorrect quote characters"
ReplaceQuotes(s) ==
    LET s1 == Replace(Replace(s, AsciiDQuote, AsciiDQuote), AsciiDQuote, AsciiDQuote)
    IN  Replace(s1, TripleQuoted, AsciiSQuote)

\* r'(\{|\,)\s*([a-zA-Z0-9_]+)\s*:' matches at i: the position of the colon,
\* 0 if it does not
KeyEndAt(s, i) ==
    IF s[i] \in {"{", ","}
    THEN LET j == SkipSpaces(s, i + 1)
             k == SkipWord(s, j)
             l == SkipSpaces(s, k)
         IN  IF k > j /\ l <= Len(s) /\ s[l] = ":" THEN l ELSE 0
    ELSE 0

\* re.sub(<the key pattern>, r'\1 "\2":', json_str)
RECURSIVE QuoteKeysFrom(_, _)
QuoteKeysFrom(s, i) ==
    IF i > Len(s) THEN <<>>
    ELSE IF KeyEndAt(s, i) # 0
         THEN LET j == SkipSpaces(s, i + 1)
                  k == SkipWord(s, j)
              IN  <<s[i], " ", "\"">> \o SubSeq(s, j, k - 1) \o <<"\"", ":">>
                    \o QuoteKeysFrom(s, KeyEndAt(s, i) + 1)
         ELSE <<s[i]>> \o QuoteKeysFrom(s, i + 1)
QuoteKeys(s) == QuoteKeysFrom(s, 1)

\* r',\s*(\}|\])' matches at i: the position of the closing character, 0 if not
CommaEndAt(s, i) ==
    IF s[i] = ","
    THEN LET j == SkipSpaces(s, i + 1)
         IN  IF j <= Len(s) /\ s[j] \in {"}", "]"} THEN j ELSE 0
    ELSE 0

\* re.sub(r',\s*(\}|\])', r'\1', json_str)
RECURSIVE DropCommasFrom(_, _)
DropCommasFrom(s, i) ==
    IF i > Len(s) THEN <<>>
    ELSE IF CommaEndAt(s, i) # 0
         THEN <<s[CommaEndAt(s, i)]>> \o DropCommasFrom(s, CommaEndAt(s, i) + 1)
         ELSE <<s[i]>> \o DropCommasFrom(s, i + 1)
DropTrailingCommas(s) == DropCommasFrom(s, 1)

fix_json_format(json_str) == DropTrailingCommas(QuoteKeys(ReplaceQuotes(json_str)))

(***************************************************************************)
(* fix_json_format called on its own, and called again on its own output.  *)
(***************************************************************************)
JsonChars == {"{", "}", "]", ",", ":", " ", "a", LDQuote, RSQuote}
JsonTexts == UNION {[1..n -> JsonChars] : n \in 0..MaxJson}

InitRepair ==
    /\ InitHandlers({})
    /\ fpc = "in"
    /\ fin \in JsonTexts
    /\ fout = <<>>

\* json_str = fix_json_format(json_str)
call_fix_json_format ==
    /\ fpc \in {"in", "once"}
    /\ fin' = IF fpc = "in" THEN fin ELSE fout
    /\ fout' = fix_json_format(fin')
    /\ fpc' = IF fpc = "in" THEN "once" ELSE "twice"
    /\ UNCHANGED handlers

SpecRepair == InitRepair /\ [][call_fix_json_format]_vars

\* C13: fix_json_format is idempotent: applied to its own output (the value
\* held by fin at the second call) it returns that output unchanged, also for
\* texts with repeated or whitespace-separated trailing commas.
C13_Idempotent == fpc = "twice" => fout = fin

\* C15: the output of fix_json_format contains no curly double or single
\* quote: each has been replaced by its ASCII counterpart.
C15_NoCurlyQuotes ==
    fpc \in {"once", "twice"} => \A i \in 1..Len(fout) : fout[i] \notin CurlyQuotes

(***************************************************************************)
(* extract_json_from_text called on its own: on prose around an array of   *)
(* objects, and on prose alone (arr empty).                                *)
(***************************************************************************)
ProseChars == {"[", "]", "{", "}", " "}
Prose == UNION {[1..n -> ProseChars] : n \in 0..MaxProse}
Arrays ==
    { <<"[", "{", "}", "]">>,
      <<"[", " ", "{", "}", " ", "]">>,
      <<"[", "{", "}", ",", "{", "}", "]">>,
      <<"[", "{", "[", "{", "}", "]", "}", "]">> }
RawText(in) == in.pre \o in.arr \o in.post

InitExtract ==
    /\ InitHandlers({})
    /\ fpc = "in"
    /\ fin \in [pre : Prose, arr : Arrays \cup {<<>>}, post : Prose]
    /\ fout = <<>>

\* json_str = extract_json_from_text(text)
call_extract_json_from_text ==
    /\ fpc = "in"
    /\ fout' = extract_json_from_text(RawText(fin))
    /\ fpc' = "once"
    /\ UNCHANGED <<fin, handlers>>

SpecExtract == InitExtract /\ [][call_extract_json_from_text]_vars

Extracted == fpc = "once"
\* the text holds no `[`, or no `]` of it comes after its first `[`
NoBracketPair(t) ==
    \A i, j \in 1..Len(t) : t[i] = "[" /\ t[j] = "]" => j < i
\* somewhere in t: `[`, whitespace, `{`
HasOpening(t) ==
    \E i \in 1..Len(t) : t[i] = "[" /\ SkipSpaces(t, i + 1) <= Len(t)
                                     /\ t[SkipSpaces(t, i + 1)] = "{"
\* somewhere in t: `}`, whitespace, `]`
HasClosing(t) ==
    \E i \in 1..Len(t) : t[i] = "}" /\ SkipSpaces(t, i + 1) <= Len(t)
                                     /\ t[SkipSpaces(t, i + 1)] = "]"
C14_NotFound ==
    Extracted /\ NoBracketPair(RawText(fin)) => fout = NotFound

\* C14 as stated: whatever brackets and braces the prose before and after
\* holds, the result is exactly the array; and the result is not-found when
\* the text has no `[` or its last `]` is not after its first `[`.
C14_ExactlyTheArray ==
    /\ Extracted /\ fin.arr # <<>> => fout = Found(fin.arr)
    /\ C14_NotFound

\* C14 as amended: the result is exactly the array when the prose before it
\* holds no `[`-whitespace-`{` and the prose after it no `}`-whitespace-`]`;
\* and the result is not-found when the text has no `[` or its last `]` is
\* not after its first `[`.
C14_ExactlyTheArrayInPlainProse ==
    /\ Extracted /\ fin.arr # <<>> /\ ~HasOpening(fin.pre) /\ ~HasClosing(fin.post)
          => fout = Found(fin.arr)
    /\ C14_NotFound
C14_Witness ==
    /\ Extracted
    /\ fin.arr = <<"[", "{", "[", "{", "}", "]", "}", "]">>
    /\ fin.pre = <<"{", "[">> /\ fin.post = <<"]", "}">>
    /\ fout = Found(fin.arr)

(***************************************************************************)
(* The retry loop, attempt by attempt.                                     *)
(***************************************************************************)
FailureKinds == {"empty", "noarray", "badjson", "invalid"}
ReasonOf(kind) ==
    CASE kind = "empty" -> "Empty response from AI model"
      [] kind = "noarray" -> "Could not find JSON array in response"
      [] kind = "badjson" -> "Failed to parse AI response as JSON"
      [] kind = "invalid" -> "Invalid quiz structure"
\* the request is in the loop with no response yet: its next step is an LLM call
WillCallAgain(r) == pc[r] = "loop" /\ nresp[r] = 0 /\ calls[r] < max_attempts

\* C16: an attempt that ends with an empty text, no array, a parse failure or
\* a rejected quiz is followed by another LLM call when it is attempt 1 or 2
\* and by a 500 when it is attempt 3; the error of that 500 is the reason of
\* the final attempt's failure, and no such 500 exists before attempt 3.
C16_RetryThenFail ==
    \A r \in Requests :
        /\ last[r] \in FailureKinds /\ attempts[r] < max_attempts => WillCallAgain(r)
        /\ last[r] \in FailureKinds /\ attempts[r] = max_attempts =>
              Failed(r) /\ resp[r] = Error(500, ReasonOf(last[r]))
        /\ Failed(r) => attempts[r] = max_attempts
C16_Witness ==
    \E r \in Requests :
        /\ Failed(r) /\ attempts[r] = max_attempts /\ last[r] = "empty"
        /\ resp[r].error = "Empty response from AI model" /\ ~onlyBad[r]

FillerOf(r) == Filler(endpoint[r], text[r])
IsGenericFiller(q) ==
    /\ q["options"] = JList(<<"Option A", "Option B", "Option C", "Option D">>)
    /\ q["correct"] = q["options"].elems[1]
HasFiller(r) == \E i \in 1..Len(resp[r].quiz) : resp[r].quiz[i] = FillerOf(r)

\* C17: a validated list of fewer than 10 items is not returned on attempt 1
\* or 2, where another attempt follows; on attempt 3 it is returned followed
\* by filler items (4 generic options, the first correct) up to 10 items.  A
\* returned quiz with a filler item therefore comes after exactly 3 LLM
\* calls, and a validated list of 10 or more items is accepted on the attempt
\* that gave it, cut to its first 10.
C17_ShortRetriedThenPadded ==
    \A r \in Requests :
        /\ last[r] = "short" =>
              Len(validated[r]) < QuizSize /\ attempts[r] < max_attempts /\ WillCallAgain(r)
        /\ Accepted(r) /\ Len(validated[r]) < QuizSize =>
              /\ attempts[r] = max_attempts /\ calls[r] = max_attempts
              /\ Len(resp[r].quiz) = QuizSize
              /\ \A i \in 1..QuizSize :
                    IF i <= Len(validated[r]) THEN resp[r].quiz[i] = validated[r][i]
                    ELSE resp[r].quiz[i] = FillerOf(r) /\ IsGenericFiller(resp[r].quiz[i])
        /\ Accepted(r) /\ HasFiller(r) => calls[r] = max_attempts
        /\ attempts[r] > 0 /\ Len(validated[r]) >= QuizSize =>
              /\ pc[r] \in {"save", "dump", "done"}
              /\ quiz[r] = SubSeq(validated[r], 1, QuizSize)
              /\ Done(r) => resp[r] = Ok(quiz[r])
C17_Witness ==
    \E r \in Requests :
        /\ Accepted(r) /\ calls[r] = max_attempts /\ last[r] = "padded"
        /\ Len(validated[r]) \in 1..(QuizSize - 1) /\ HasFiller(r)

\* C18: every call of the LLM, on every attempt of both endpoints, is given
\* the prompt built for the request, the temperature of 0.2 and the
\* block-none threshold for each harm category.
C18_CallCarriesSafetySettings ==
    \A r \in Requests :
        calls[r] > 0 =>
            /\ llm[r].prompt = Prompt(endpoint[r], text[r])
            /\ llm[r].generation_config.temperature = LowTemperature
            /\ llm[r].safety.passed
            /\ llm[r].safety.thresholds = safety_settings

\* C19: an exception raised inside an attempt does not leave the retry loop:
\* on attempt 1 or 2 the request stays in the loop and calls the LLM again,
\* as after a structural failure; on attempt 3 it is answered 500 by the
\* loop's own except clause, never by the handler's outer one.
C19_ExceptionStaysInLoop ==
    \A r \in Requests :
        /\ last[r] = "throw" /\ attempts[r] < max_attempts => WillCallAgain(r)
        /\ last[r] = "throw" /\ attempts[r] >= max_attempts =>
              /\ Failed(r) /\ nresp[r] = 1
              /\ resp[r] = Error(500, "Failed to generate quiz after multiple attempts")
        /\ calls[r] > 0 => resp[r].error # "An unexpected error occurred. Please try again."
C19_Witness ==
    \E r \in Requests :
        /\ Failed(r) /\ last[r] = "throw" /\ calls[r] = max_attempts
        /\ endpoint[r] = "pdf" /\ r \notin tmp

\* C20: the items of a returned quiz that are not filler are the first items
\* of the list validated from the reply of the attempt that was accepted, in
\* that order; what earlier, abandoned attempts validated is not in it.
C20_ItemsFromAcceptedAttempt ==
    \A r \in Requests :
        Accepted(r) =>
            \A i \in 1..Len(resp[r].quiz) :
                resp[r].quiz[i] # FillerOf(r) =>
                    i <= Len(validated[r]) /\ resp[r].quiz[i] = validated[r][i]
C20_Witness ==
    \E r \in Requests :
        /\ Accepted(r) /\ calls[r] = 2 /\ last[r] = "ok"
        /\ Len(validated[r]) > QuizSize /\ ~HasFiller(r)

=============================================================================
